---- MODULE Spec2Model ----
(***************************************************************************)
(* Playback/queue core of yt-player-obs-donatty: the History ring buffer   *)
(* and the priority queue (package main, queue.go), the fallback Playlist  *)
(* (playlist.go), the Player state machine (player.go) and the donation    *)
(* feed (donation.go).                                                     *)
(*                                                                         *)
(* The specifications share the variables:                                 *)
(*   SpecRing       the RingBuffer alone, under push and pop;              *)
(*   SpecQueue      the PriorityQueue alone, under add, addFront, next,    *)
(*                  removeAt and clear;                                    *)
(*   Spec           the Player with its queue, history and playlist, the   *)
(*                  playlist being loaded step by step;                    *)
(*   SpecAdmission  the Player of a deployment without fallback playlist;  *)
(*   SpecPriority   that Player under admissions and next() only;          *)
(*   SpecBroadcast  that Player with its broadcast channel and the         *)
(*                  consumer of the channel (FairSpecBroadcast: every call *)
(*                  that has started goes on);                             *)
(*   SpecSnapshot   buildState reading the playlist while the playlist is  *)
(*                  loaded, enabled, disabled and shuffled;                *)
(*   SpecGetNext    Spec with getNext called at any time;                  *)
(*   SpecCleanup    the Player of SpecAdmission with a clock and           *)
(*                  cleanupOld;                                            *)
(*   SpecRepeat     the checks of validateAndAdd for every repeat_limit;   *)
(*   SpecDonation   the donation feed (donation.go) and its record of the  *)
(*                  donations seen;                                        *)
(*   SpecConcurrent the Player with several validateAndAdd calls under way *)
(*                  at once, the lock held only where the code holds it;   *)
(*   SpecCycle      the Player with a loaded, enabled playlist under       *)
(*                  admissions and next();                                 *)
(*   SpecCursor     that Player under next, previous and playlistJump;     *)
(*   SpecDelivery   SpecBroadcast with a consumer that keeps the snapshot  *)
(*                  it received last;                                      *)
(*   SpecFeed       the reconnect loop of the donation feed;               *)
(*   SpecReorder    SpecCleanup with admissions by viewers and donors;     *)
(*   SpecInstances  the Player with playlist, clock and cleanupOld and     *)
(*                  two admitted tracks;                                   *)
(*   SpecLocks      the lock calls of every operation, by several callers  *)
(*                  (FairSpecLocks: every caller goes on).                 *)
(***************************************************************************)
EXTENDS Integers, Sequences, FiniteSets, TLC

VARIABLES
    q,        \* Player.q.items / PriorityQueue.items: sequence of tracks
    hist,     \* Player.hist / RingBuffer: [buf, head, size, cap]
    cur,      \* Player.cur (NoTrack models a nil pointer)
    state,    \* Player.state: "stopped" | "playing" | "paused"
    last,     \* the call that has just returned and its result (in Spec and
              \* SpecAdmission: NoCall once the caller has taken the result)
    stack,    \* SpecRing: tracks pushed and not yet popped or overwritten
    inserted, \* SpecQueue: every track handed to add(t, false), in call order
    onlyAdds, \* SpecQueue: no operation other than add(t, false) has run;
              \* SpecRing: no operation other than push has run
    fronted,  \* SpecQueue: the track put back by add(t, true), while only
              \* add(t, false) has run since (NoTrack otherwise)
    pl,       \* the Playlist: [playlistID, tracks, shuffleMap, currentIndex,
              \*                isShuffled, isEnabled]
    ld,       \* the load() in progress: [stage, todo, kept]; kept tells that
              \* the call has so far left the playlist as it found it
    cfg,      \* ConfigManager.cfg
    now,      \* the wall clock, in hours (only Tick of SpecCleanup advances it)
    nAdded,   \* number of tracks validateAndAdd has created
    updates,  \* Player.updates: the snapshots in the broadcast channel, the
              \* oldest first (SpecBroadcast)
    snap,     \* SpecSnapshot: the buildState in progress, [pc, st]: pc fields
              \* of the PlaylistStatus st have been read
    seenDonations, \* DonationMonitor.seenDonations: the set of [ref, at]
    invoked,  \* SpecDonation: the number of addTrack calls made per RefID
    adm,      \* SpecConcurrent: the validateAndAdd call of each caller,
              \* [pc, sub, info]
    mu,       \* SpecConcurrent: the caller that holds Player.mu between two
              \* steps of its validateAndAdd (0: nobody); SpecLocks: the
              \* caller that holds Player.mu
    monitor,  \* SpecFeed: DonationMonitor.backoff in seconds, and where
              \* start() stands in its loop: [backoff, pc]
    received, \* SpecDelivery: the last snapshot BroadcastLoop has received
              \* (<<>> before the first)
    thr,      \* SpecLocks: the operation each caller runs and the lock step
              \* it is at: [op, pc] (pc 0: no operation)
    locks     \* SpecLocks: Playlist.mu and ConfigManager.mu, each [w, r, wait]:
              \* the writer (0: none), the readers, the callers inside Lock()

vars == <<q, hist, cur, state, last, stack, inserted, onlyAdds, fronted,
          pl, ld, cfg, now, nAdded, updates, snap, seenDonations, invoked,
          adm, mu, monitor, received, thr, locks>>

----------------------------------------------------------------------------
(* Bounds of the model *)

\* capacity of the Player's history in the model (newRingBuffer(historySize),
\* historySize = 100 in the code)
HistCap == 2
\* capacity of the ring buffer of SpecRing (newRingBuffer(capacity))
RingCap == 3
\* number of Track values created by push / add in SpecRing and SpecQueue
MaxTracks == 4
\* number of tracks admitted by validateAndAdd in Spec
MaxAdds == 1
\* number of tracks admitted by validateAndAdd in SpecAdmission
MaxAdmits == 3
\* number of tracks admitted by validateAndAdd in SpecInstances
MaxInstances == 2
\* number of tracks admitted by validateAndAdd in SpecReorder
MaxReorderAdmits == 4
\* number of videos of the longest external playlist
PlLen == 2
\* number of videos of the playlist of SpecCycle and SpecCursor
CycleLen == 3
\* the last hour of the clock of SpecCleanup
MaxClock == 2
\* largest cleanup_after_hours of SpecCleanup
MaxHours == 2
\* the size seenDonations is cut back to (maxSeenDonations = 500 in the code)
MaxSeen == 2
\* number of addTrack calls per RefID the model follows
MaxInvoked == 2
\* number of concurrent callers of validateAndAdd in SpecConcurrent
MaxCallers == 2
\* largest repeat_limit of SpecRepeat
MaxRepeat == 2
\* capacity of the broadcast channel in the model (make(chan PlayerState, 50)
\* in the code)
UpdatesCap == 2

----------------------------------------------------------------------------
(* Track (queue.go: type Track).  DurationSec, Views and Title are only    *)
(* read while a track is validated and are not kept in the model's record. *)
(* A video id is a number from 1; 0 stands for no video.                   *)
(* id is the identity of the *Track pointer (0: a track made by the        *)
(* playlist, which makes a new one per call).  at is AddedAt in hours; no  *)
(* code reads the AddedAt of a track made by the playlist (cleanupOld reads *)
(* the pending queue, where previous() never puts such a track), and the   *)
(* model keeps 0 for it.                                                    *)

NoTrack == [id |-> 0, vid |-> 0, by |-> "", paid |-> FALSE, at |-> 0]

Track(id, vid, by, paid, at) ==
    [id |-> id, vid |-> vid, by |-> by, paid |-> paid, at |-> at]

----------------------------------------------------------------------------
(* RingBuffer *)

newRingBuffer(capacity) ==
    [buf |-> [i \in 0..(capacity - 1) |-> NoTrack],
     head |-> 0, size |-> 0, cap |-> capacity]

push(r, t) ==
    [r EXCEPT !.buf[r.head] = t,
              !.head = (r.head + 1) % r.cap,
              !.size = IF r.size < r.cap THEN r.size + 1 ELSE r.size]

\* index read by pop: computed from the size already decremented
popIdx(r) == (r.head - 1 - ((r.size - 1) % r.cap) + r.cap) % r.cap

\* the track pop returns (NoTrack: nil)
popTrack(r) == IF r.size = 0 THEN NoTrack ELSE r.buf[popIdx(r)]

\* the ring after pop
popRing(r) ==
    IF r.size = 0 THEN r
    ELSE [r EXCEPT !.size = r.size - 1, !.buf[popIdx(r)] = NoTrack]

\* snapshot that copies the first size slots of buf
snapshot_fromZero(r) ==
    [i \in 1..r.size |-> r.buf[i - 1]]

snapshot(r) ==
    [i \in 1..r.size |-> r.buf[(((r.head - r.size + r.cap) % r.cap) + (i - 1)) % r.cap]]

----------------------------------------------------------------------------
(* PriorityQueue *)

RECURSIVE paidPrefix(_)
\* the position the loop of add computes: the number of leading paid tracks
paidPrefix(items) ==
    IF items = <<>> \/ ~items[1].paid THEN 0
    ELSE 1 + paidPrefix(Tail(items))

insertAt(items, pos, t) ==
    SubSeq(items, 1, pos) \o <<t>> \o SubSeq(items, pos + 1, Len(items))

\* add with the scan for the end of the paid prefix left out
add_paidAtHead(items, t, front) ==
    IF t.paid \/ front THEN insertAt(items, 0, t) ELSE Append(items, t)

\* add that appends every track, paid or not
add_appendOnly(items, t, front) ==
    IF front THEN insertAt(items, 0, t) ELSE Append(items, t)

add(items, t, front) ==
    IF t.paid \/ front
    THEN insertAt(items, IF front THEN 0 ELSE paidPrefix(items), t)
    ELSE Append(items, t)

\* next(): the head, or NoTrack (nil) when empty
nextTrack(items) == IF items = <<>> THEN NoTrack ELSE Head(items)
nextRest(items) == IF items = <<>> THEN items ELSE Tail(items)

\* removeAt(i), i counted from 0
removeAtTrack(items, i) ==
    IF i < 0 \/ i >= Len(items) THEN NoTrack ELSE items[i + 1]
removeAtRest(items, i) ==
    IF i < 0 \/ i >= Len(items) THEN items
    ELSE SubSeq(items, 1, i) \o SubSeq(items, i + 2, Len(items))

----------------------------------------------------------------------------
(* Playlist.  tracks holds the video ids of m.tracks; positions are counted *)
(* from 0 as in the code, so the track at index i is tracks[i + 1].         *)

PlaylistIDs == {"PLa"}

\* what the YouTube API lists for a playlist id
Content(pid) == [i \in 1..PlLen |-> i]

newPlaylist ==
    [playlistID |-> "", tracks |-> <<>>, shuffleMap |-> [i \in {} |-> 0],
     currentIndex |-> 0, isShuffled |-> FALSE, isEnabled |-> FALSE]

\* a playlist URL is modelled by the id it carries ("" when it carries none)
extractPlaylistID(u) == IF u \in PlaylistIDs THEN u ELSE ""

\* the maps reshuffleLocked can build for n tracks
Perms(n) ==
    {f \in [0..(n - 1) -> 0..(n - 1)] : \A i, j \in 0..(n - 1) : i # j => f[i] # f[j]}

reshuffleLocked(p, sm) == [p EXCEPT !.shuffleMap = sm]

\* the maps an operation on p can leave when it calls reshuffleLocked (does)
\* or not.  The map is read only while isShuffled (getNext) and is rebuilt
\* whenever shuffle is turned on, so for a rebuild of a map that is not in
\* use the model takes a single outcome, the identity.
reshuffles(p, does) ==
    IF ~does THEN {p.shuffleMap}
    ELSE IF p.isShuffled THEN Perms(Len(p.tracks))
    ELSE {[i \in 0..(Len(p.tracks) - 1) |-> i]}

\* the index getNext reads m.tracks at
getNextIdx(p) ==
    LET i == p.currentIndex
        j == IF p.isShuffled /\ i \in DOMAIN p.shuffleMap THEN p.shuffleMap[i] ELSE i
    IN  IF j >= Len(p.tracks) THEN 0 ELSE j

\* getNext indexes m.tracks below 0: a run-time panic
getNextPanics(p) == p.isEnabled /\ Len(p.tracks) > 0 /\ getNextIdx(p) < 0

getNext(p, t) ==
    IF ~p.isEnabled \/ Len(p.tracks) = 0 THEN NoTrack
    ELSE Track(0, p.tracks[getNextIdx(p) + 1], "Playlist", FALSE, 0)

\* sm: the map reshuffleLocked builds if the cursor wraps while shuffled
advanceToNext(p, sm) ==
    IF p.currentIndex + 1 >= Len(p.tracks)
    THEN [p EXCEPT !.currentIndex = 0,
                   !.shuffleMap = IF p.isShuffled THEN sm ELSE p.shuffleMap]
    ELSE [p EXCEPT !.currentIndex = p.currentIndex + 1]

\* getAt that looks the index up through the shuffle map while shuffled
getAt_shuffled(p, i, t) ==
    IF i < 0 \/ i >= Len(p.tracks) THEN NoTrack
    ELSE IF p.isShuffled /\ i \in DOMAIN p.shuffleMap
         THEN Track(0, p.tracks[p.shuffleMap[i] + 1], "Playlist", FALSE, 0)
    ELSE Track(0, p.tracks[i + 1], "Playlist", FALSE, 0)

getAt(p, i, t) ==
    IF i < 0 \/ i >= Len(p.tracks) THEN NoTrack
    ELSE Track(0, p.tracks[i + 1], "Playlist", FALSE, 0)

goToPrevious(p) ==
    IF p.currentIndex - 1 < 0
    THEN [p EXCEPT !.currentIndex = Len(p.tracks) - 1]
    ELSE [p EXCEPT !.currentIndex = p.currentIndex - 1]

\* jumpToIndex: the error it returns is dropped by its only caller
jumpToIndex(p, i) ==
    IF i < 0 \/ i >= Len(p.tracks) THEN p ELSE [p EXCEPT !.currentIndex = i]

toggleShuffle(p, sm) ==
    [p EXCEPT !.isShuffled = ~p.isShuffled,
              !.shuffleMap = IF ~p.isShuffled THEN sm ELSE p.shuffleMap]

enable(p) == [p EXCEPT !.isEnabled = TRUE]
disable(p) == [p EXCEPT !.isEnabled = FALSE]

----------------------------------------------------------------------------
(* Config *)

\* config.json as written by the user
RawConfig ==
    [MaxDurationMinutes |-> 9, MinViews |-> 1000, RepeatLimit |-> 1, MaxQueueSize |-> 2]

\* a config.json that sets no limit
RawConfigNoLimits ==
    [MaxDurationMinutes |-> 0, MinViews |-> 0, RepeatLimit |-> 0, MaxQueueSize |-> 0]

\* loadConfig: max_queue_size 0 (or absent) becomes 100
loadConfig(raw) ==
    IF raw.MaxQueueSize = 0 THEN [raw EXCEPT !.MaxQueueSize = 100] ELSE raw

----------------------------------------------------------------------------
(* The variables a specification of one collection leaves alone *)

\* the variables of the donation feed and of the concurrent admissions
\* the variables of the reconnect loop, of the consumer of the broadcast
\* channel and of the locks
sideVars == <<monitor, received, thr, locks>>

feedVars == <<seenDonations, invoked, adm, mu, sideVars>>

restVars == <<cur, state, pl, ld, cfg, now, nAdded, updates, snap, feedVars>>

\* the RefIDs of the donations: one more than seenDonations keeps
RefIDs == 1..(MaxSeen + 1)

\* the callers of validateAndAdd: HTTP requests and the donation feed
Callers == 1..MaxCallers

NoSub == [vid |-> 0, by |-> "", paid |-> FALSE]

NoInfo == [err |-> FALSE, Embeddable |-> FALSE, Duration |-> 0, Views |-> 0]

\* a caller that is not in validateAndAdd
AdmIdle == [pc |-> "idle", sub |-> NoSub, info |-> NoInfo]

\* the first reconnect delay, in seconds (10 * time.Second)
baseBackoff == 10

\* the longest reconnect delay, in seconds (5 * time.Minute)
maxBackoff == 300

\* a caller that runs no operation
ThrIdle == [op |-> "", pc |-> 0]

\* a sync.RWMutex nobody holds or waits for
RWFree == [w |-> 0, r |-> {}, wait |-> {}]

\* no donation seen, no admission under way, the monitor just created,
\* nothing received, no lock held
feedIdle ==
    /\ seenDonations = {}
    /\ invoked = [r \in RefIDs |-> 0]
    /\ adm = [c \in Callers |-> AdmIdle]
    /\ mu = 0
    /\ monitor = [backoff |-> baseBackoff, pc |-> "token"]
    /\ received = <<>>
    /\ thr = [c \in Callers |-> ThrIdle]
    /\ locks = [pl |-> RWFree, cfg |-> RWFree]

ldIdle == [stage |-> "idle", todo |-> <<>>, kept |-> TRUE]

\* PlaylistStatus, the playlist part of a PlayerState
PlaylistStatus(loaded, enabled, shuffled, pid, total, idx) ==
    [Loaded |-> loaded, Enabled |-> enabled, Shuffled |-> shuffled,
     PlaylistID |-> pid, TotalTracks |-> total, CurrentIndex |-> idx]

\* the zero PlaylistStatus buildState starts from
NoStatus == PlaylistStatus(FALSE, FALSE, FALSE, "", 0, 0)

\* no buildState in progress
NoSnap == [pc |-> 0, st |-> NoStatus]

restIdle ==
    /\ cur = NoTrack /\ state = "stopped"
    /\ pl = newPlaylist /\ ld = ldIdle
    /\ cfg = loadConfig(RawConfig)
    /\ now = 0 /\ nAdded = 0
    /\ updates = <<>> /\ snap = NoSnap
    /\ feedIdle

----------------------------------------------------------------------------
(* SpecRing: a RingBuffer under every interleaving of push and pop.        *)

RingTracks == {Track(i, 1, "User", FALSE, 0) : i \in 1..MaxTracks}

RingInit ==
    /\ hist = newRingBuffer(RingCap)
    /\ stack = <<>>
    /\ last = [op |-> "init", ok |-> TRUE, ret |-> NoTrack]
    /\ q = <<>> /\ inserted = <<>> /\ onlyAdds = TRUE /\ fronted = NoTrack
    /\ restIdle

\* push of a track not held in the ring; at capacity the oldest is overwritten
RingPush ==
    \E t \in RingTracks :
        /\ \A i \in 1..Len(stack) : stack[i] # t
        /\ hist' = push(hist, t)
        /\ stack' = IF Len(stack) < hist.cap THEN Append(stack, t)
                    ELSE Append(Tail(stack), t)
        /\ last' = [op |-> "push", ok |-> TRUE, ret |-> NoTrack]
        /\ UNCHANGED <<q, inserted, onlyAdds, fronted, restVars>>

\* pop; the track it returned is no longer held
RingPop ==
    /\ hist' = popRing(hist)
    /\ stack' = SelectSeq(stack, LAMBDA t : t # popTrack(hist))
    /\ onlyAdds' = FALSE
    /\ last' = [op |-> "pop", ok |-> popTrack(hist) # NoTrack, ret |-> popTrack(hist)]
    /\ UNCHANGED <<q, inserted, fronted, restVars>>

RingNext == RingPush \/ RingPop

SpecRing == RingInit /\ [][RingNext]_vars

\* C1: pop() on a non-empty ring removes and returns the most recently pushed
\* track not yet popped (LIFO), and returns not-found (nil) on an empty ring.
C1_PopIsLIFO ==
    [][last'.op = "pop" =>
          /\ last'.ret = (IF stack = <<>> THEN NoTrack ELSE stack[Len(stack)])
          /\ stack' = (IF stack = <<>> THEN stack
                       ELSE SubSeq(stack, 1, Len(stack) - 1))]_vars

\* C27: while only push has run, snapshot() is the tracks pushed, the last
\* `capacity` of them once more than that were pushed, oldest first; and
\* after any pushes and pops len() is at most the capacity and snapshot() has
\* len() entries, none of them empty.
C27_SnapshotIsLastPushed ==
    /\ onlyAdds => snapshot(hist) = stack
    /\ hist.size <= hist.cap
    /\ Len(snapshot(hist)) = hist.size
    /\ \A i \in 1..hist.size : snapshot(hist)[i] # NoTrack

\* capacity + 1 (or more) tracks were pushed and none popped
C27_Witness ==
    /\ onlyAdds /\ last.op = "push"
    /\ hist.size = hist.cap /\ hist.head = 1

----------------------------------------------------------------------------
(* SpecQueue: a PriorityQueue under add, addFront, next, removeAt, clear.  *)

QueueInit ==
    /\ q = <<>>
    /\ inserted = <<>> /\ onlyAdds = TRUE /\ fronted = NoTrack
    /\ last = [op |-> "init", ok |-> TRUE, ret |-> NoTrack]
    /\ hist = newRingBuffer(HistCap) /\ stack = <<>>
    /\ restIdle

\* add(t, false) of a new track, paid or not
QueueAdd ==
    \E paid \in BOOLEAN :
        LET t == Track(Len(inserted) + 1, 1, "User", paid, 0) IN
        /\ Len(inserted) < MaxTracks
        /\ q' = add(q, t, FALSE)
        /\ inserted' = Append(inserted, t)
        /\ last' = [op |-> "add", ok |-> TRUE, ret |-> NoTrack]
        /\ UNCHANGED <<onlyAdds, fronted, hist, stack, restVars>>

\* add(t, true) of the track the next() just before removed
QueueAddFront ==
    /\ last.op = "next" /\ last.ok
    /\ q' = add(q, last.ret, TRUE)
    /\ fronted' = last.ret
    /\ onlyAdds' = FALSE
    /\ last' = [op |-> "addFront", ok |-> TRUE, ret |-> NoTrack]
    /\ UNCHANGED <<inserted, hist, stack, restVars>>

QueueNextOp ==
    /\ q' = nextRest(q)
    /\ last' = [op |-> "next", ok |-> nextTrack(q) # NoTrack, ret |-> nextTrack(q)]
    /\ fronted' = NoTrack
    /\ onlyAdds' = FALSE
    /\ UNCHANGED <<inserted, hist, stack, restVars>>

QueueRemoveAt ==
    \E i \in 0..Len(q) :
        /\ q' = removeAtRest(q, i)
        /\ last' = [op |-> "removeAt", ok |-> removeAtTrack(q, i) # NoTrack,
                    ret |-> removeAtTrack(q, i)]
        /\ fronted' = NoTrack
        /\ onlyAdds' = FALSE
        /\ UNCHANGED <<inserted, hist, stack, restVars>>

QueueClear ==
    /\ q' = <<>>
    /\ last' = [op |-> "clear", ok |-> TRUE, ret |-> NoTrack]
    /\ fronted' = NoTrack
    /\ onlyAdds' = FALSE
    /\ UNCHANGED <<inserted, hist, stack, restVars>>

QueueNext ==
    QueueAdd \/ QueueAddFront \/ QueueNextOp \/ QueueRemoveAt \/ QueueClear

SpecQueue == QueueInit /\ [][QueueNext]_vars

IsPaid(t) == t.paid
IsUnpaid(t) == ~t.paid

\* C3: after every add() of a sequence of add() calls alone, the queue is all
\* paid tracks in insertion order followed by all unpaid tracks in insertion
\* order.
C3_PaidPrefixInOrder ==
    onlyAdds => q = SelectSeq(inserted, IsPaid) \o SelectSeq(inserted, IsUnpaid)

\* a queue built by add() alone that holds paid and unpaid tracks, two of each
C3_Witness ==
    /\ onlyAdds /\ last.op = "add"
    /\ Len(SelectSeq(q, IsPaid)) = 2 /\ Len(SelectSeq(q, IsUnpaid)) = 2
    /\ inserted[1].paid = FALSE /\ inserted[Len(inserted)].paid = TRUE

\* C4: a track put back with addFront keeps position 0 whatever is inserted
\* with add() afterwards, so the following next() returns it.
C4_FrontKeepsHead ==
    fronted # NoTrack => nextTrack(q) = fronted

----------------------------------------------------------------------------
(* Player *)

\* the variables of the collection specifications, of the broadcast channel
\* and of the snapshot in progress, which Spec leaves alone
ghostVars == <<stack, inserted, onlyAdds, fronted, updates, snap, feedVars>>

\* what an operation returned: res is "ok", "err" (an error was returned) or
\* "panic"; sent tells whether broadcast() offered a snapshot
Ret(op, res, err, sent) == [op |-> op, res |-> res, err |-> err, sent |-> sent]

\* no call has returned since the caller took the last result
NoCall == Ret("", "", "", FALSE)

\* the answers of the metadata lookup (getVideoInfo) for a video
Infos ==
    {[err |-> FALSE, Embeddable |-> TRUE, Duration |-> 540, Views |-> 1000],
     [err |-> TRUE, Embeddable |-> FALSE, Duration |-> 0, Views |-> 0],
     [err |-> FALSE, Embeddable |-> FALSE, Duration |-> 540, Views |-> 1000],
     [err |-> FALSE, Embeddable |-> TRUE, Duration |-> 541, Views |-> 1000],
     [err |-> FALSE, Embeddable |-> TRUE, Duration |-> 540, Views |-> 999]}

\* the submissions: video id, submitter name and paid flag (a viewer may
\* give any name, "Playlist" included; the donation feed submits paid tracks)
Submissions ==
    {[vid |-> 1, by |-> "Playlist", paid |-> FALSE],
     [vid |-> 2, by |-> "Donor", paid |-> TRUE]}

RECURSIVE repeatCount(_, _, _, _, _)
\* the loop of canRepeat: from entry i of h down to the oldest, while cnt < limit
repeatCount(h, i, cnt, id, limit) ==
    IF i < 1 \/ cnt >= limit THEN cnt
    ELSE repeatCount(h, i - 1, IF h[i].vid = id THEN cnt + 1 ELSE cnt, id, limit)

\* canRepeat that looks at the limit most recent History entries only
canRepeat_recentOnly(id) ==
    LET limit == cfg.RepeatLimit
        h == snapshot(hist)
    IN  limit = 0 \/ \A i \in 1..hist.size : i > hist.size - limit => h[i].vid # id

canRepeat(id) ==
    LET limit == cfg.RepeatLimit
        h == snapshot(hist)
    IN  limit = 0 \/ repeatCount(h, hist.size, 0, id, limit) < limit

\* admitError with a queue size check that counts the pending tracks only
admitError_pendingOnly(vid, info) ==
    IF info.err THEN "lookup failed"
    ELSE IF ~info.Embeddable THEN "video is not available for playback"
    ELSE IF cfg.MaxDurationMinutes > 0 /\ info.Duration > cfg.MaxDurationMinutes * 60
         THEN "track too long"
    ELSE IF cfg.MinViews > 0 /\ info.Views < cfg.MinViews THEN "insufficient views"
    ELSE IF ~canRepeat(vid) THEN "track recently played (repeat limit reached)"
    ELSE IF cfg.MaxQueueSize > 0 /\ Len(q) >= cfg.MaxQueueSize
         THEN "queue is full"
    ELSE ""

\* the error validateAndAdd returns ("" when the track is accepted)
admitError(vid, info) ==
    IF info.err THEN "lookup failed"
    ELSE IF ~info.Embeddable THEN "video is not available for playback"
    ELSE IF cfg.MaxDurationMinutes > 0 /\ info.Duration > cfg.MaxDurationMinutes * 60
         THEN "track too long"
    ELSE IF cfg.MinViews > 0 /\ info.Views < cfg.MinViews THEN "insufficient views"
    ELSE IF ~canRepeat(vid) THEN "track recently played (repeat limit reached)"
    ELSE IF cfg.MaxQueueSize > 0
            /\ Len(q) + (IF cur # NoTrack THEN 1 ELSE 0) >= cfg.MaxQueueSize
         THEN "queue is full"
    ELSE ""

\* playNext on queue items qq and playlist p at time t: the queue, the current
\* track and the state it leaves; panic when getNext panics
playNext(qq, p, t) ==
    IF nextTrack(qq) # NoTrack
    THEN [q |-> nextRest(qq), cur |-> nextTrack(qq), state |-> "playing", panic |-> FALSE]
    ELSE IF p.isEnabled /\ getNextPanics(p)
    THEN [q |-> qq, cur |-> NoTrack, state |-> "stopped", panic |-> TRUE]
    ELSE IF p.isEnabled /\ getNext(p, t) # NoTrack
    THEN [q |-> qq, cur |-> getNext(p, t), state |-> "playing", panic |-> FALSE]
    ELSE [q |-> qq, cur |-> NoTrack, state |-> "stopped", panic |-> FALSE]

Init ==
    /\ q = <<>>
    /\ hist = newRingBuffer(HistCap)
    /\ cur = NoTrack
    /\ state = "stopped"
    /\ pl = newPlaylist
    /\ ld = ldIdle
    /\ cfg = loadConfig(RawConfig)
    /\ now = 0
    /\ nAdded = 0
    /\ last = NoCall
    /\ stack = <<>> /\ inserted = <<>> /\ onlyAdds = TRUE /\ fronted = NoTrack
    /\ updates = <<>> /\ snap = NoSnap
    /\ feedIdle

\* validateAndAdd that starts playback whenever nothing is current or
\* pending, whatever the state tag
ValidateAndAddUpTo_anyState(bound) ==
    /\ last = NoCall
    /\ \E sub \in Submissions, info \in Infos :
        LET e == admitError(sub.vid, info)
            t == Track(nAdded + 1, sub.vid, sub.by, sub.paid, now)
            wasEmpty == Len(q) = 0 /\ cur = NoTrack
            added == add(q, t, FALSE)
            n == playNext(added, pl, now)
        IN  IF e # ""
            THEN /\ last' = Ret("validateAndAdd", "err", e, FALSE)
                 /\ UNCHANGED <<q, hist, cur, state, pl, ld, cfg, now, nAdded,
                                ghostVars>>
            ELSE /\ nAdded < bound
                 /\ nAdded' = nAdded + 1
                 /\ IF wasEmpty
                    THEN q' = n.q /\ cur' = n.cur /\ state' = n.state
                    ELSE q' = added /\ UNCHANGED <<cur, state>>
                 /\ last' = Ret("validateAndAdd", "ok", "", TRUE)
                 /\ UNCHANGED <<hist, pl, ld, cfg, now, ghostVars>>

\* validateAndAdd(vid, by, paid) for one of the submissions subs; the model
\* creates at most bound tracks
ValidateAndAddOf(subs, bound) ==
    /\ last = NoCall
    /\ \E sub \in subs, info \in Infos :
        LET e == admitError(sub.vid, info)
            t == Track(nAdded + 1, sub.vid, sub.by, sub.paid, now)
            wasEmpty == Len(q) = 0 /\ cur = NoTrack
            added == add(q, t, FALSE)
            n == playNext(added, pl, now)
        IN  IF e # ""
            THEN /\ last' = Ret("validateAndAdd", "err", e, FALSE)
                 /\ UNCHANGED <<q, hist, cur, state, pl, ld, cfg, now, nAdded,
                                ghostVars>>
            ELSE /\ nAdded < bound
                 /\ nAdded' = nAdded + 1
                 /\ IF state = "stopped" /\ wasEmpty
                    THEN q' = n.q /\ cur' = n.cur /\ state' = n.state
                    ELSE q' = added /\ UNCHANGED <<cur, state>>
                 /\ last' = Ret("validateAndAdd", "ok", "", TRUE)
                 /\ UNCHANGED <<hist, pl, ld, cfg, now, ghostVars>>

\* validateAndAdd(vid, by, paid); the model creates at most bound tracks
ValidateAndAddUpTo(bound) ==
    ValidateAndAddOf(Submissions, bound)

ValidateAndAdd == ValidateAndAddUpTo(MaxAdds)

Play ==
    LET n == playNext(q, pl, now) IN
    /\ last = NoCall
    /\ IF Len(q) = 0 /\ cur = NoTrack /\ ~pl.isEnabled
       THEN /\ last' = Ret("play", "err", "queue is empty", FALSE)
            /\ UNCHANGED <<q, cur, state>>
       ELSE IF cur = NoTrack
       THEN IF n.panic
            THEN /\ last' = Ret("play", "panic", "", FALSE)
                 /\ UNCHANGED <<q, cur, state>>
            ELSE /\ q' = n.q /\ cur' = n.cur /\ state' = n.state
                 /\ last' = Ret("play", "ok", "", TRUE)
       ELSE /\ state' = "playing"
            /\ last' = Ret("play", "ok", "", TRUE)
            /\ UNCHANGED <<q, cur>>
    /\ UNCHANGED <<hist, pl, ld, cfg, now, nAdded, ghostVars>>

Pause ==
    /\ last = NoCall
    /\ IF state # "paused"
       THEN state' = "paused" /\ last' = Ret("pause", "ok", "", TRUE)
       ELSE UNCHANGED state /\ last' = Ret("pause", "ok", "", FALSE)
    /\ UNCHANGED <<q, hist, cur, pl, ld, cfg, now, nAdded, ghostVars>>

Stop ==
    /\ last = NoCall
    /\ IF state # "stopped"
       THEN /\ state' = "stopped"
            /\ pl' = disable(pl)
            /\ last' = Ret("stop", "ok", "", TRUE)
       ELSE /\ UNCHANGED <<state, pl>>
            /\ last' = Ret("stop", "ok", "", FALSE)
    /\ UNCHANGED <<q, hist, cur, ld, cfg, now, nAdded, ghostVars>>

NextOp ==
    /\ last = NoCall
    /\ \E sm \in reshuffles(pl, cur # NoTrack /\ cur.by = "Playlist" /\ pl.isShuffled
                              /\ pl.currentIndex + 1 >= Len(pl.tracks)) :
        LET h1 == IF cur # NoTrack THEN push(hist, cur) ELSE hist
            p1 == IF cur # NoTrack /\ cur.by = "Playlist"
                  THEN advanceToNext(pl, sm) ELSE pl
            n == playNext(q, p1, now)
        IN  /\ hist' = h1
            /\ pl' = p1
            /\ IF n.panic
               THEN /\ last' = Ret("next", "panic", "", FALSE)
                    /\ UNCHANGED <<q, cur, state>>
               ELSE /\ q' = n.q /\ cur' = n.cur /\ state' = n.state
                    /\ last' = Ret("next", "ok", "", TRUE)
            /\ UNCHANGED <<ld, cfg, now, nAdded, ghostVars>>

Previous ==
    /\ last = NoCall
    /\ IF hist.size = 0
       THEN /\ last' = Ret("previous", "err", "no previous track available", FALSE)
            /\ UNCHANGED <<q, hist, cur, state, pl>>
       ELSE LET byPl == cur # NoTrack /\ cur.by = "Playlist"
                p1 == IF byPl THEN goToPrevious(pl) ELSE pl
                prev == popTrack(hist)
            IN  /\ q' = IF cur # NoTrack /\ ~byPl THEN add(q, cur, TRUE) ELSE q
                /\ hist' = popRing(hist)
                /\ pl' = IF prev.by = "Playlist" THEN goToPrevious(p1) ELSE p1
                /\ cur' = prev
                /\ state' = "playing"
                /\ last' = Ret("previous", "ok", "", TRUE)
    /\ UNCHANGED <<ld, cfg, now, nAdded, ghostVars>>

\* playlistJump that pushes the current track onto History before it looks
\* the index up
PlaylistJump_pushFirst ==
    /\ last = NoCall
    /\ \E idx \in 0..PlLen :
        LET t == getAt(pl, idx, now) IN
        /\ hist' = IF cur # NoTrack THEN push(hist, cur) ELSE hist
        /\ IF t = NoTrack
           THEN /\ last' = Ret("playlistJump", "err", "index out of range", FALSE)
                /\ UNCHANGED <<cur, state, pl>>
           ELSE /\ pl' = jumpToIndex(pl, idx + 1)
                /\ cur' = t
                /\ state' = "playing"
                /\ last' = Ret("playlistJump", "ok", "", TRUE)
        /\ UNCHANGED <<q, ld, cfg, now, nAdded, ghostVars>>

PlaylistJump ==
    /\ last = NoCall
    /\ \E idx \in 0..PlLen :
        LET t == getAt(pl, idx, now) IN
        /\ IF t = NoTrack
           THEN /\ last' = Ret("playlistJump", "err", "index out of range", FALSE)
                /\ UNCHANGED <<hist, cur, state, pl>>
           ELSE /\ pl' = jumpToIndex(pl, idx + 1)
                /\ hist' = IF cur # NoTrack THEN push(hist, cur) ELSE hist
                /\ cur' = t
                /\ state' = "playing"
                /\ last' = Ret("playlistJump", "ok", "", TRUE)
        /\ UNCHANGED <<q, ld, cfg, now, nAdded, ghostVars>>

Remove ==
    /\ last = NoCall
    /\ \E idx \in 0..Len(q) :
        /\ IF removeAtTrack(q, idx) = NoTrack
           THEN /\ last' = Ret("remove", "err", "index out of range", FALSE)
                /\ UNCHANGED q
           ELSE /\ q' = removeAtRest(q, idx)
                /\ last' = Ret("remove", "ok", "", TRUE)
        /\ UNCHANGED <<hist, cur, state, pl, ld, cfg, now, nAdded, ghostVars>>

Clear ==
    /\ last = NoCall
    /\ q' = <<>>
    /\ cur' = NoTrack
    /\ state' = "stopped"
    /\ last' = Ret("clear", "ok", "", TRUE)
    /\ UNCHANGED <<hist, pl, ld, cfg, now, nAdded, ghostVars>>

(* The Playlist operations the HTTP handlers and main call on the playlist  *)
(* itself, outside the Player's lock.                                       *)

PlEnable ==
    /\ last = NoCall
    /\ ~pl.isEnabled
    /\ pl' = enable(pl)
    /\ last' = Ret("enable", "ok", "", FALSE)
    /\ UNCHANGED <<q, hist, cur, state, ld, cfg, now, nAdded, ghostVars>>

PlDisable ==
    /\ last = NoCall
    /\ pl.isEnabled
    /\ pl' = disable(pl)
    /\ last' = Ret("disable", "ok", "", FALSE)
    /\ UNCHANGED <<q, hist, cur, state, ld, cfg, now, nAdded, ghostVars>>

PlToggleShuffle ==
    /\ last = NoCall
    /\ \E sm \in reshuffles([pl EXCEPT !.isShuffled = ~pl.isShuffled], ~pl.isShuffled) :
        /\ pl' = toggleShuffle(pl, sm)
        /\ last' = Ret("toggleShuffle", "ok", "", FALSE)
        /\ UNCHANGED <<q, hist, cur, state, ld, cfg, now, nAdded, ghostVars>>

(* load(url) / reload(url), by the steps between which the code releases   *)
(* the playlist lock.  At most one load runs at a time.  The cache and the  *)
(* YouTube API are outside the model: a load finds the playlist in the      *)
(* cache or fetches it, and every video the API lists is embeddable.        *)

\* the call up to the first unlock: the id is set, the tracks and the cursor
\* are reset
LoadStart ==
    /\ last = NoCall
    /\ \E u \in PlaylistIDs \cup {"bad"} :
        LET pid == extractPlaylistID(u) IN
        /\ ld.stage = "idle"
        /\ IF pid = ""
           THEN /\ last' = Ret("load", "err", "invalid playlist URL", FALSE)
                /\ UNCHANGED <<pl, ld>>
           ELSE /\ pl' = [pl EXCEPT !.playlistID = pid, !.tracks = <<>>,
                                    !.currentIndex = 0]
                /\ ld' = [stage |-> "started", todo |-> <<>>, kept |-> pl' = pl]
                /\ last' = Ret("load", "running", "", FALSE)
        /\ UNCHANGED <<q, hist, cur, state, cfg, now, nAdded, ghostVars>>

\* cache hit: the cached tracks are appended and the map is rebuilt in one
\* critical section
LoadFromCache ==
    /\ last = NoCall
    /\ ld.stage = "started"
    /\ LET p2 == [pl EXCEPT !.tracks = pl.tracks \o Content(pl.playlistID)]
       IN  \E sm \in reshuffles(p2, TRUE) : pl' = reshuffleLocked(p2, sm)
    /\ ld' = ldIdle
    /\ last' = Ret("load", "ok", "", FALSE)
    /\ UNCHANGED <<q, hist, cur, state, cfg, now, nAdded, ghostVars>>

\* cache miss and fetchAllVideoIDs returns an error
LoadFetchFails ==
    /\ last = NoCall
    /\ ld.stage = "started"
    /\ ld' = ldIdle
    /\ last' = Ret("load", "err", "failed to fetch playlist", FALSE)
    /\ UNCHANGED <<q, hist, cur, state, pl, cfg, now, nAdded, ghostVars>>

\* cache miss: fetchAllVideoIDs returns the ids (none for an empty playlist)
LoadFetchIDs ==
    /\ last = NoCall
    /\ \E vids \in {<<>>, Content(pl.playlistID)} :
        /\ ld.stage = "started"
        /\ ld' = [ld EXCEPT !.stage = "fetching", !.todo = vids]
        /\ last' = Ret("load", "running", "", FALSE)
        /\ UNCHANGED <<q, hist, cur, state, pl, cfg, now, nAdded, ghostVars>>

\* one turn of the loop of fetchAndCache: the next video is appended
LoadFetchTrack ==
    /\ last = NoCall
    /\ ld.stage = "fetching" /\ ld.todo # <<>>
    /\ pl' = [pl EXCEPT !.tracks = Append(pl.tracks, Head(ld.todo))]
    /\ ld' = [ld EXCEPT !.todo = Tail(ld.todo), !.kept = FALSE]
    /\ last' = Ret("load", "running", "", FALSE)
    /\ UNCHANGED <<q, hist, cur, state, cfg, now, nAdded, ghostVars>>

\* after the loop: an error if no track was appended, else the map is rebuilt
LoadFinish ==
    /\ last = NoCall
    /\ ld.stage = "fetching" /\ ld.todo = <<>>
    /\ IF Len(pl.tracks) = 0
       THEN /\ last' = Ret("load", "err", "no valid tracks found in playlist", FALSE)
            /\ UNCHANGED pl
       ELSE /\ \E sm \in reshuffles(pl, TRUE) : pl' = reshuffleLocked(pl, sm)
            /\ last' = Ret("load", "ok", "", FALSE)
    /\ ld' = ldIdle
    /\ UNCHANGED <<q, hist, cur, state, cfg, now, nAdded, ghostVars>>

Load ==
    \/ LoadStart \/ LoadFromCache \/ LoadFetchFails \/ LoadFetchIDs
    \/ LoadFetchTrack \/ LoadFinish

\* the caller takes the result of the call (or of the step of load) that has
\* just ended; every call and step above starts after that (last = NoCall)
Return ==
    /\ last # NoCall
    /\ last' = NoCall
    /\ UNCHANGED <<q, hist, cur, state, pl, ld, cfg, now, nAdded, ghostVars>>

Next ==
    \/ ValidateAndAdd \/ Play \/ Pause \/ Stop \/ NextOp \/ Previous
    \/ PlaylistJump \/ Remove \/ Clear
    \/ PlEnable \/ PlDisable \/ PlToggleShuffle
    \/ Load \/ Return

Spec == Init /\ [][Next]_vars

(* SpecAdmission: the Player of a deployment that never loads or enables   *)
(* the fallback playlist (no fallback_playlist_url, no playlist request),  *)
(* with more admissions than Spec and with either configuration.           *)

AdmissionInit ==
    /\ q = <<>>
    /\ hist = newRingBuffer(HistCap)
    /\ cur = NoTrack
    /\ state = "stopped"
    /\ pl = newPlaylist
    /\ ld = ldIdle
    /\ cfg \in {loadConfig(RawConfig), loadConfig(RawConfigNoLimits)}
    /\ now = 0
    /\ nAdded = 0
    /\ last = NoCall
    /\ stack = <<>> /\ inserted = <<>> /\ onlyAdds = TRUE /\ fronted = NoTrack
    /\ updates = <<>> /\ snap = NoSnap
    /\ feedIdle

AdmissionNext ==
    \/ ValidateAndAddUpTo(MaxAdmits) \/ Play \/ Pause \/ Stop \/ NextOp
    \/ Previous \/ Remove \/ Clear \/ Return

SpecAdmission == AdmissionInit /\ [][AdmissionNext]_vars

(* SpecGetNext: Spec with getNext also called at any time, as by a         *)
(* playNext that has passed its isEnabledVal() test (playNext takes the     *)
(* playlist lock once for the test and once more for getNext).             *)

GetNextCall ==
    /\ last = NoCall
    /\ last' = [op |-> "getNext",
                res |-> IF getNextPanics(pl) THEN "panic" ELSE "ok",
                err |-> "", sent |-> FALSE,
                ret |-> IF getNextPanics(pl) THEN NoTrack ELSE getNext(pl, now)]
    /\ UNCHANGED <<q, hist, cur, state, pl, ld, cfg, now, nAdded, ghostVars>>

GetNextNext == Next \/ GetNextCall

SpecGetNext == Init /\ [][GetNextNext]_vars

(* SpecCleanup: the Player of SpecAdmission with a clock that advances and *)
(* with the cleanupOld of cleanupLoop, for every cleanup_after_hours up to *)
(* MaxHours.                                                               *)

RECURSIVE addAll(_, _)
\* q.add(t, false) for every t of keep, in order
addAll(items, keep) ==
    IF keep = <<>> THEN items ELSE addAll(add(items, Head(keep), FALSE), Tail(keep))

\* an hour passes
Tick ==
    /\ now < MaxClock
    /\ now' = now + 1
    /\ UNCHANGED <<q, hist, cur, state, last, pl, ld, cfg, nAdded, ghostVars>>

\* cleanupOld that also keeps the tracks added exactly at the cutoff
CleanupOld_notBefore ==
    /\ last = NoCall
    /\ \E hours \in 0..MaxHours :
        LET cutoff == now - hours
            keep == SelectSeq(q, LAMBDA t : t.at >= cutoff)
            removed == Len(q) - Len(keep)
        IN  /\ IF hours # 0 /\ removed > 0
               THEN /\ q' = addAll(<<>>, keep)
                    /\ state' = IF keep = <<>> /\ cur = NoTrack THEN "stopped" ELSE state
               ELSE UNCHANGED <<q, state>>
            /\ last' = [op |-> "cleanupOld", res |-> "ok", err |-> "",
                        sent |-> hours # 0 /\ removed > 0, hours |-> hours]
    /\ UNCHANGED <<hist, cur, pl, ld, cfg, now, nAdded, ghostVars>>

\* cleanupOld(hours)
CleanupOld ==
    /\ last = NoCall
    /\ \E hours \in 0..MaxHours :
        LET cutoff == now - hours
            keep == SelectSeq(q, LAMBDA t : t.at > cutoff)
            removed == Len(q) - Len(keep)
        IN  /\ IF hours # 0 /\ removed > 0
               THEN /\ q' = addAll(<<>>, keep)
                    /\ state' = IF keep = <<>> /\ cur = NoTrack THEN "stopped" ELSE state
               ELSE UNCHANGED <<q, state>>
            /\ last' = [op |-> "cleanupOld", res |-> "ok", err |-> "",
                        sent |-> hours # 0 /\ removed > 0, hours |-> hours]
    /\ UNCHANGED <<hist, cur, pl, ld, cfg, now, nAdded, ghostVars>>

CleanupNext ==
    \/ ValidateAndAddUpTo(MaxAdmits) \/ NextOp \/ Previous \/ Tick
    \/ CleanupOld \/ Return

SpecCleanup == AdmissionInit /\ [][CleanupNext]_vars

(* SpecReorder: SpecCleanup with MaxReorderAdmits admissions by a viewer   *)
(* (unpaid) and by the donation feed (paid), none under the name           *)
(* "Playlist", so that previous() puts the track it replaces back at the   *)
(* front of the pending queue.                                             *)

ViewerSubmissions ==
    {[vid |-> 1, by |-> "Viewer", paid |-> FALSE],
     [vid |-> 2, by |-> "Donor", paid |-> TRUE]}

ReorderNext ==
    \/ ValidateAndAddOf(ViewerSubmissions, MaxReorderAdmits) \/ NextOp
    \/ Previous \/ Tick \/ CleanupOld \/ Return

SpecReorder == AdmissionInit /\ [][ReorderNext]_vars

(* SpecInstances: the Player of Spec with MaxInstances admitted tracks,     *)
(* the clock and cleanupOld, without pause, stop, play, disable and        *)
(* shuffle; every load finds the playlist in the cache.                    *)

InstancesNext ==
    \/ ValidateAndAddUpTo(MaxInstances) \/ NextOp \/ Previous \/ PlaylistJump
    \/ Remove \/ Clear \/ Tick \/ CleanupOld \/ PlEnable
    \/ LoadStart \/ LoadFromCache \/ Return

SpecInstances == Init /\ [][InstancesNext]_vars

(* SpecDonation: the donation feed (DonationMonitor.processEvent) under    *)
(* any sequence of events, with seenDonations cut back to MaxSeen entries. *)

\* DonationMonitor.minAmount (donatty min_amount)
minAmount == 100

\* the events of the feed: donation tells whether the event parses as a
\* DONATTY_DONATION, link whether its message holds a YouTube link
Events ==
    [donation : BOOLEAN, RefID : RefIDs, Amount : {minAmount - 1, minAmount},
     link : BOOLEAN]

\* the entries evictOldest may delete: those no other entry is older than
\* (the map is ranged over in any order)
oldestSeen(seen) == {e \in seen : \A f \in seen : ~(f.at < e.at)}

\* processEvent(data)
ProcessEvent ==
    /\ \E ev \in Events :
        /\ invoked[ev.RefID] < MaxInvoked
        /\ IF \/ ~ev.donation
              \/ ev.Amount < minAmount
              \/ \E e \in seenDonations : e.ref = ev.RefID
           THEN UNCHANGED <<seenDonations, invoked>>
           ELSE LET marked == seenDonations \cup {[ref |-> ev.RefID, at |-> now]}
                IN  /\ IF Cardinality(marked) > MaxSeen
                       THEN \E old \in oldestSeen(marked) :
                                seenDonations' = marked \ {old}
                       ELSE seenDonations' = marked
                    /\ invoked' = IF ev.link
                                  THEN [invoked EXCEPT ![ev.RefID] = @ + 1]
                                  ELSE invoked
    /\ UNCHANGED <<q, hist, cur, state, last, pl, ld, cfg, now, nAdded,
                   stack, inserted, onlyAdds, fronted, updates, snap, adm, mu,
                   sideVars>>

DonationNext == ProcessEvent \/ Tick

SpecDonation == Init /\ [][DonationNext]_vars

(* SpecFeed: the reconnect loop of DonationMonitor.start around the        *)
(* processing of SpecDonation.  monitor.pc is the place of the loop:       *)
(* "token" before getAccessToken, "connect" before the request of          *)
(* connectSSE, "stream" inside its read loop, "sleep" before               *)
(* time.Sleep(m.backoff); m.increaseBackoff().                             *)

increaseBackoff_uncapped(b) == IF b < maxBackoff THEN b * 2 ELSE b

increaseBackoff(b) ==
    IF b < maxBackoff
    THEN IF b * 2 > maxBackoff THEN maxBackoff ELSE b * 2
    ELSE b

feedRest ==
    <<q, hist, cur, state, last, pl, ld, cfg, now, nAdded, stack, inserted,
      onlyAdds, fronted, updates, snap, seenDonations, invoked, adm, mu,
      received, thr, locks>>

\* getAccessToken returns nil
TokenOk ==
    /\ monitor.pc = "token"
    /\ monitor' = [monitor EXCEPT !.pc = "connect"]
    /\ UNCHANGED feedRest

\* getAccessToken returns an error: request failed, status not 200, bad body
TokenFail ==
    /\ monitor.pc = "token"
    /\ monitor' = [monitor EXCEPT !.pc = "sleep"]
    /\ UNCHANGED feedRest

\* connectSSE: the request fails or its status is not 200
ConnectFail ==
    /\ monitor.pc = "connect"
    /\ monitor' = [monitor EXCEPT !.pc = "sleep"]
    /\ UNCHANGED feedRest

\* connectSSE: status 200, the connection is established
ConnectOk ==
    /\ monitor.pc = "connect"
    /\ monitor' = [backoff |-> baseBackoff, pc |-> "stream"]
    /\ UNCHANGED feedRest

\* connectSSE: a data line of the stream is handed to processEvent
FeedEvent == monitor.pc = "stream" /\ ProcessEvent

\* connectSSE: ReadString fails, the stream has ended
StreamEnd ==
    /\ monitor.pc = "stream"
    /\ monitor' = [monitor EXCEPT !.pc = "sleep"]
    /\ UNCHANGED feedRest

\* start: time.Sleep(m.backoff); m.increaseBackoff(), then the loop again
SleepAndIncrease ==
    /\ monitor.pc = "sleep"
    /\ monitor' = [backoff |-> increaseBackoff(monitor.backoff), pc |-> "token"]
    /\ UNCHANGED feedRest

FeedNext ==
    \/ TokenOk \/ TokenFail \/ ConnectFail \/ ConnectOk \/ FeedEvent
    \/ StreamEnd \/ SleepAndIncrease

SpecFeed == Init /\ [][FeedNext]_vars

(* SpecConcurrent: the Player of Spec without playlist requests, with      *)
(* MaxCallers callers inside validateAndAdd at the same time.  A call      *)
(* looks the video up without the lock, then takes Player.mu for the       *)
(* repeat check, the size check and the insertion; every other operation   *)
(* takes Player.mu for its whole body.                                     *)

\* the calls of validateAndAdd that have started and not returned
inFlight == Cardinality({c \in Callers : adm[c].pc # "idle"})

\* validateAndAdd that takes the lock before the lookup
AdmitCall_locked(c) ==
    /\ adm[c].pc = "idle"
    /\ last = NoCall
    /\ mu = 0
    /\ nAdded + inFlight < MaxAdmits
    /\ \E sub \in Submissions :
        adm' = [adm EXCEPT ![c] = [pc |-> "lookup", sub |-> sub, info |-> NoInfo]]
    /\ mu' = c
    /\ UNCHANGED <<q, hist, cur, state, last, pl, ld, cfg, now, nAdded,
                   stack, inserted, onlyAdds, fronted, updates, snap,
                   seenDonations, invoked, sideVars>>

\* caller c calls validateAndAdd(vid, by, paid): getVideoInfo starts
AdmitCall(c) ==
    /\ adm[c].pc = "idle"
    /\ last = NoCall
    /\ nAdded + inFlight < MaxAdmits
    /\ \E sub \in Submissions :
        adm' = [adm EXCEPT ![c] = [pc |-> "lookup", sub |-> sub, info |-> NoInfo]]
    /\ UNCHANGED <<q, hist, cur, state, last, pl, ld, cfg, now, nAdded,
                   stack, inserted, onlyAdds, fronted, updates, snap,
                   seenDonations, invoked, mu, sideVars>>

\* getVideoInfo returns; the checks made before the lock
AdmitLookup(c) ==
    /\ adm[c].pc = "lookup"
    /\ \E info \in Infos :
        adm' = [adm EXCEPT ![c] =
                   IF \/ info.err
                      \/ ~info.Embeddable
                      \/ cfg.MaxDurationMinutes > 0
                            /\ info.Duration > cfg.MaxDurationMinutes * 60
                      \/ cfg.MinViews > 0 /\ info.Views < cfg.MinViews
                   THEN AdmIdle
                   ELSE [pc |-> "wait", sub |-> @.sub, info |-> info]]
    /\ UNCHANGED <<q, hist, cur, state, last, pl, ld, cfg, now, nAdded,
                   stack, inserted, onlyAdds, fronted, updates, snap,
                   seenDonations, invoked, mu, sideVars>>

\* the repeat and size checks made without waiting for the lock
AdmitCheck_noMutex(c) ==
    /\ adm[c].pc = "wait"
    /\ IF admitError(adm[c].sub.vid, adm[c].info) # ""
       THEN adm' = [adm EXCEPT ![c] = AdmIdle] /\ UNCHANGED mu
       ELSE adm' = [adm EXCEPT ![c].pc = "checked"] /\ mu' = c
    /\ UNCHANGED <<q, hist, cur, state, last, pl, ld, cfg, now, nAdded,
                   stack, inserted, onlyAdds, fronted, updates, snap,
                   seenDonations, invoked, sideVars>>

\* p.mu.Lock(), the repeat check and the size check; a rejected call
\* returns (the deferred Unlock)
AdmitCheck(c) ==
    /\ adm[c].pc = "wait"
    /\ mu = 0
    /\ IF admitError(adm[c].sub.vid, adm[c].info) # ""
       THEN adm' = [adm EXCEPT ![c] = AdmIdle] /\ UNCHANGED mu
       ELSE adm' = [adm EXCEPT ![c].pc = "checked"] /\ mu' = c
    /\ UNCHANGED <<q, hist, cur, state, last, pl, ld, cfg, now, nAdded,
                   stack, inserted, onlyAdds, fronted, updates, snap,
                   seenDonations, invoked, sideVars>>

\* q.add(t, false), playNext() when stopped and empty, broadcast(), return
AdmitInsert(c) ==
    /\ adm[c].pc = "checked"
    /\ LET sub == adm[c].sub
           t == Track(nAdded + 1, sub.vid, sub.by, sub.paid, now)
           wasEmpty == Len(q) = 0 /\ cur = NoTrack
           added == add(q, t, FALSE)
           n == playNext(added, pl, now)
       IN  /\ nAdded' = nAdded + 1
           /\ IF state = "stopped" /\ wasEmpty
              THEN q' = n.q /\ cur' = n.cur /\ state' = n.state
              ELSE q' = added /\ UNCHANGED <<cur, state>>
    /\ adm' = [adm EXCEPT ![c] = AdmIdle]
    /\ mu' = 0
    /\ UNCHANGED <<hist, last, pl, ld, cfg, now,
                   stack, inserted, onlyAdds, fronted, updates, snap,
                   seenDonations, invoked, sideVars>>

\* the other operations, each under p.mu
ConcPlay == mu = 0 /\ Play
ConcPause == mu = 0 /\ Pause
ConcStop == mu = 0 /\ Stop
ConcNextOp == mu = 0 /\ NextOp
ConcPrevious == mu = 0 /\ Previous
ConcRemove == mu = 0 /\ Remove

ConcurrentNext ==
    \/ \E c \in Callers :
          AdmitCall(c) \/ AdmitLookup(c) \/ AdmitCheck(c) \/ AdmitInsert(c)
    \/ ConcPlay \/ ConcPause \/ ConcStop \/ ConcNextOp \/ ConcPrevious
    \/ ConcRemove \/ Return

SpecConcurrent == Init /\ [][ConcurrentNext]_vars

(* SpecCycle: the Player once the fallback playlist of CycleLen videos is   *)
(* loaded and enabled (main: pl.load, pl.enable), under admissions and     *)
(* next() only.  SpecCursor: the same Player under next(), previous() and   *)
(* playlistJump.                                                           *)

CycleInit ==
    /\ q = <<>>
    /\ hist = newRingBuffer(HistCap)
    /\ cur = NoTrack
    /\ state = "stopped"
    /\ pl = [playlistID |-> "PLa", tracks |-> [i \in 1..CycleLen |-> i],
             shuffleMap |-> [i \in 0..(CycleLen - 1) |-> i],
             currentIndex |-> 0, isShuffled |-> FALSE, isEnabled |-> TRUE]
    /\ ld = ldIdle
    /\ cfg = loadConfig(RawConfig)
    /\ now = 0
    /\ nAdded = 0
    /\ last = NoCall
    /\ stack = <<>> /\ inserted = <<>> /\ onlyAdds = TRUE /\ fronted = NoTrack
    /\ updates = <<>> /\ snap = NoSnap
    /\ feedIdle

CycleNext == ValidateAndAddUpTo(MaxAdmits) \/ NextOp \/ Return

SpecCycle == CycleInit /\ [][CycleNext]_vars

CursorNext == NextOp \/ Previous \/ PlaylistJump \/ Return

SpecCursor == CycleInit /\ [][CursorNext]_vars

(* SpecLocks: the locking of the program.  MaxCallers goroutines (HTTP      *)
(* handlers, the donation feed, the cleanup loop, the playlist loader, the *)
(* config watcher) each run one operation after another; an operation is   *)
(* the sequence of lock and unlock calls its code makes, on the path that   *)
(* makes every call the operation can make.  The data of the Player is     *)
(* left out.  Player.mu is a sync.Mutex; Playlist.mu and ConfigManager.mu   *)
(* are sync.RWMutex: a caller inside Lock() keeps new readers out, and      *)
(* gets the lock when the writer and the readers have left.  broadcast()   *)
(* offers its snapshot with a select that has a default case and never      *)
(* waits.                                                                  *)

\* one call of a read accessor: RLock, RUnlock
RL(l) == <<[a |-> "rlock", l |-> l], [a |-> "runlock", l |-> l]>>

\* one call of a mutator: Lock, Unlock
WL(l) == <<[a |-> "lock", l |-> l], [a |-> "unlock", l |-> l]>>

\* p.mu.Lock(); defer p.mu.Unlock() around body
playerLocked(body) ==
    <<[a |-> "lock", l |-> "P"]>> \o body \o <<[a |-> "unlock", l |-> "P"]>>

\* buildState: loaded, isEnabledVal, isShuffledVal, getPlaylistID, lenVal,
\* currentIndexVal
buildStateLocks ==
    RL("pl") \o RL("pl") \o RL("pl") \o RL("pl") \o RL("pl") \o RL("pl")

\* playNext that calls getNext while it still reads isEnabledVal
playNextLocks_nested ==
    <<[a |-> "rlock", l |-> "pl"], [a |-> "lock", l |-> "pl"],
      [a |-> "unlock", l |-> "pl"], [a |-> "runlock", l |-> "pl"]>>

\* playNext with an empty queue: isEnabledVal, getNext
playNextLocks ==
    RL("pl") \o WL("pl")

lockScript(op) ==
    CASE op = "validateAndAdd" ->
            RL("cfg") \o playerLocked(RL("cfg") \o playNextLocks \o buildStateLocks)
      [] op = "play" ->
            playerLocked(RL("pl") \o playNextLocks \o buildStateLocks)
      [] op = "stop" -> playerLocked(WL("pl") \o buildStateLocks)
      [] op = "next" ->
            playerLocked(WL("pl") \o playNextLocks \o buildStateLocks)
      [] op = "previous" ->
            playerLocked(WL("pl") \o WL("pl") \o buildStateLocks)
      [] op = "playlistJump" ->
            playerLocked(RL("pl") \o WL("pl") \o buildStateLocks)
      [] op \in {"pause", "remove", "clear", "currentState",
                 "broadcastPlaylistUpdate"} ->
            playerLocked(buildStateLocks)
      [] op = "cleanupLoop" -> RL("cfg") \o playerLocked(buildStateLocks)
      [] op = "status" -> playerLocked(<<>>)
      [] op = "pl.load" -> WL("pl") \o WL("pl") \o WL("pl")
      [] op \in {"pl.enable", "pl.disable", "pl.toggleShuffle"} -> WL("pl")
      [] op = "pl.status" -> RL("pl")
      [] op = "cfg.get" -> RL("cfg")
      [] op = "cfg.reload" -> WL("cfg")

\* the lock call caller c is at
atStep(c) == lockScript(thr[c].op)[thr[c].pc]

\* thr after caller c has made the call it is at
advance(c) ==
    [thr EXCEPT ![c] = IF thr[c].pc = Len(lockScript(thr[c].op))
                       THEN ThrIdle
                       ELSE [thr[c] EXCEPT !.pc = thr[c].pc + 1]]

lockRest ==
    <<q, hist, cur, state, last, pl, ld, cfg, now, nAdded, stack, inserted,
      onlyAdds, fronted, updates, snap, seenDonations, invoked, adm, monitor,
      received>>

\* caller c starts an operation
Begin(c) ==
    /\ thr[c] = ThrIdle
    /\ \E op \in {"validateAndAdd", "play", "pause", "stop", "next",
                  "previous", "playlistJump", "remove", "clear",
                  "cleanupLoop", "currentState", "status",
                  "broadcastPlaylistUpdate", "pl.load", "pl.enable",
                  "pl.disable", "pl.toggleShuffle", "pl.status", "cfg.get",
                  "cfg.reload"} :
        thr' = [thr EXCEPT ![c] = [op |-> op, pc |-> 1]]
    /\ UNCHANGED <<mu, locks, lockRest>>

\* p.mu.Lock() returns
PlayerLock(c) ==
    /\ thr[c].pc # 0 /\ atStep(c).a = "lock" /\ atStep(c).l = "P"
    /\ mu = 0
    /\ mu' = c
    /\ thr' = advance(c)
    /\ UNCHANGED <<locks, lockRest>>

\* p.mu.Unlock()
PlayerUnlock(c) ==
    /\ thr[c].pc # 0 /\ atStep(c).a = "unlock" /\ atStep(c).l = "P"
    /\ mu' = 0
    /\ thr' = advance(c)
    /\ UNCHANGED <<locks, lockRest>>

\* RLock() returns: no writer holds the lock and no caller is inside Lock()
RLock(c) ==
    /\ thr[c].pc # 0 /\ atStep(c).a = "rlock"
    /\ LET l == atStep(c).l IN
        /\ locks[l].w = 0 /\ locks[l].wait = {}
        /\ locks' = [locks EXCEPT ![l].r = @ \cup {c}]
    /\ thr' = advance(c)
    /\ UNCHANGED <<mu, lockRest>>

RUnlock(c) ==
    /\ thr[c].pc # 0 /\ atStep(c).a = "runlock"
    /\ locks' = [locks EXCEPT ![atStep(c).l].r = @ \ {c}]
    /\ thr' = advance(c)
    /\ UNCHANGED <<mu, lockRest>>

\* the caller enters Lock(): from now on RLock() waits
LockRequest(c) ==
    /\ thr[c].pc # 0 /\ atStep(c).a = "lock" /\ atStep(c).l # "P"
    /\ c \notin locks[atStep(c).l].wait
    /\ locks' = [locks EXCEPT ![atStep(c).l].wait = @ \cup {c}]
    /\ UNCHANGED <<thr, mu, lockRest>>

\* Lock() returns: the writer and the readers have left
LockAcquire(c) ==
    /\ thr[c].pc # 0 /\ atStep(c).a = "lock" /\ atStep(c).l # "P"
    /\ LET l == atStep(c).l IN
        /\ c \in locks[l].wait
        /\ locks[l].w = 0 /\ locks[l].r = {}
        /\ locks' = [locks EXCEPT ![l].w = c, ![l].wait = @ \ {c}]
    /\ thr' = advance(c)
    /\ UNCHANGED <<mu, lockRest>>

Unlock(c) ==
    /\ thr[c].pc # 0 /\ atStep(c).a = "unlock" /\ atStep(c).l # "P"
    /\ locks' = [locks EXCEPT ![atStep(c).l].w = 0]
    /\ thr' = advance(c)
    /\ UNCHANGED <<mu, lockRest>>

\* the next lock call of caller c
StepOf(c) ==
    \/ PlayerLock(c) \/ PlayerUnlock(c) \/ RLock(c) \/ RUnlock(c)
    \/ LockRequest(c) \/ LockAcquire(c) \/ Unlock(c)

LocksNext == \E c \in Callers : Begin(c) \/ StepOf(c)

SpecLocks == Init /\ [][LocksNext]_vars

\* a goroutine that is inside an operation goes on, and a lock that becomes
\* free again and again is given to every caller that waits for it
FairSpecLocks == SpecLocks /\ \A c \in Callers : SF_vars(StepOf(c))

(* SpecRepeat: the checks of validateAndAdd for every repeat_limit up to   *)
(* MaxRepeat, on the Histories that next() and previous() build, with or   *)
(* without a current track and a pending track.                            *)

\* the videos of SpecRepeat
Videos == {1, 2}

RepeatInit ==
    /\ hist = newRingBuffer(HistCap)
    /\ cfg \in {[loadConfig(RawConfig) EXCEPT !.RepeatLimit = n] : n \in 0..MaxRepeat}
    /\ cur \in {NoTrack} \cup {Track(1, v, "User", FALSE, 0) : v \in Videos}
    /\ q \in {<<>>} \cup {<<Track(2, v, "User", FALSE, 0)>> : v \in Videos}
    /\ state = "stopped"
    /\ pl = newPlaylist /\ ld = ldIdle
    /\ now = 0 /\ nAdded = 0
    /\ last = [op |-> "init", id |-> 0, err |-> ""]
    /\ stack = <<>> /\ inserted = <<>> /\ onlyAdds = TRUE /\ fronted = NoTrack
    /\ updates = <<>> /\ snap = NoSnap
    /\ feedIdle

\* next(): a track that was current is pushed onto History
RepeatPlayed ==
    \E v \in Videos :
        /\ hist' = push(hist, Track(3, v, "User", FALSE, 0))
        /\ last' = [op |-> "next", id |-> v, err |-> ""]
        /\ UNCHANGED <<q, cur, state, pl, ld, cfg, now, nAdded, ghostVars>>

\* previous(): the History entry pop() selects is removed
RepeatPrevious ==
    /\ hist.size > 0
    /\ hist' = popRing(hist)
    /\ last' = [op |-> "previous", id |-> popTrack(hist).vid, err |-> ""]
    /\ UNCHANGED <<q, cur, state, pl, ld, cfg, now, nAdded, ghostVars>>

\* validateAndAdd(id, ...) up to its last check: the error it returns
RepeatAdmit ==
    \E id \in Videos, info \in Infos :
        /\ last' = [op |-> "validateAndAdd", id |-> id, err |-> admitError(id, info)]
        /\ UNCHANGED <<q, hist, cur, state, pl, ld, cfg, now, nAdded, ghostVars>>

RepeatNext == RepeatPlayed \/ RepeatPrevious \/ RepeatAdmit

SpecRepeat == RepeatInit /\ [][RepeatNext]_vars

(* SpecPriority: the same Player under admissions and next() only.         *)

PriorityNext == ValidateAndAddUpTo(MaxAdmits) \/ NextOp \/ Return

SpecPriority == AdmissionInit /\ [][PriorityNext]_vars

(* SpecBroadcast: the Player with its broadcast channel.  A call is at its *)
(* broadcast() once it has made its changes (last # NoCall): the Player's   *)
(* lock is still held, so that no other call starts before BroadcastReturn, *)
(* while the consumer, which takes no lock, receives at any time.          *)

\* the six reads of buildState, on a playlist nothing else is changing
statusOf(p) ==
    PlaylistStatus(Len(p.tracks) > 0, p.isEnabled, p.isShuffled, p.playlistID,
                   Len(p.tracks), p.currentIndex)

\* buildState: History, the current track and the pending queue in one list
buildState(items, h, c, st, ps) ==
    [Action |-> st, Current |-> c,
     Queue |-> snapshot(h) \o (IF c # NoTrack THEN <<c>> ELSE <<>>) \o items,
     Position |-> h.size, Playlist |-> ps]

\* the select of broadcast(): a send that goes through if the channel has
\* room, the default case otherwise
broadcast(ch, st) == IF Len(ch) < UpdatesCap THEN Append(ch, st) ELSE ch

\* the end of a call with a send that waits for room in the channel
BroadcastReturn_blocking ==
    /\ last # NoCall
    /\ ~last.sent \/ Len(updates) < UpdatesCap
    /\ updates' = IF last.sent
                  THEN Append(updates, buildState(q, hist, cur, state, statusOf(pl)))
                  ELSE updates
    /\ last' = NoCall
    /\ UNCHANGED <<q, hist, cur, state, pl, ld, cfg, now, nAdded,
                   stack, inserted, onlyAdds, fronted, snap, feedVars>>

\* the end of a call: broadcast(), if the call reaches one, and the return
\* (the deferred Unlock)
BroadcastReturn ==
    /\ last # NoCall
    /\ updates' = IF last.sent
                  THEN broadcast(updates, buildState(q, hist, cur, state, statusOf(pl)))
                  ELSE updates
    /\ last' = NoCall
    /\ UNCHANGED <<q, hist, cur, state, pl, ld, cfg, now, nAdded,
                   stack, inserted, onlyAdds, fronted, snap, feedVars>>

\* BroadcastLoop receives the oldest snapshot of the channel
Receive ==
    /\ updates # <<>>
    /\ updates' = Tail(updates)
    /\ UNCHANGED <<q, hist, cur, state, last, pl, ld, cfg, now, nAdded,
                   stack, inserted, onlyAdds, fronted, snap, feedVars>>

BroadcastNext ==
    \/ ValidateAndAdd \/ Play \/ Pause \/ Stop \/ NextOp \/ Previous
    \/ Remove \/ Clear \/ BroadcastReturn \/ Receive

SpecBroadcast == Init /\ [][BroadcastNext]_vars

\* a call that is at its broadcast() goes on; the consumer may never receive
FairSpecBroadcast == SpecBroadcast /\ WF_vars(BroadcastReturn)

(* SpecDelivery: SpecBroadcast with a consumer that keeps the snapshot it   *)
(* has received last.                                                      *)

\* BroadcastLoop receives the oldest snapshot of the channel and hands it to
\* the hub
Consume ==
    /\ updates # <<>>
    /\ received' = <<Head(updates)>>
    /\ updates' = Tail(updates)
    /\ UNCHANGED <<q, hist, cur, state, last, pl, ld, cfg, now, nAdded,
                   stack, inserted, onlyAdds, fronted, snap,
                   seenDonations, invoked, adm, mu, monitor, thr, locks>>

DeliveryNext ==
    \/ ValidateAndAdd \/ Play \/ Pause \/ Stop \/ NextOp \/ Previous
    \/ Remove \/ Clear \/ BroadcastReturn \/ Consume

SpecDelivery == Init /\ [][DeliveryNext]_vars

(* SpecSnapshot: buildState (called by currentState and by broadcast, under *)
(* the Player's lock) reads the playlist by six calls, each of which takes  *)
(* and releases the playlist lock, while load, enable, disable and          *)
(* toggleShuffle run on the playlist without the Player's lock.            *)

\* the next read of buildState: loaded, isEnabledVal, isShuffledVal,
\* getPlaylistID, lenVal, currentIndexVal
BuildStateRead ==
    /\ last = NoCall
    /\ snap.pc < 6
    /\ LET st == IF snap.pc = 0 THEN NoStatus ELSE snap.st
           n == snap.pc + 1
       IN  snap' = [pc |-> n,
                    st |-> CASE n = 1 -> [st EXCEPT !.Loaded = Len(pl.tracks) > 0]
                             [] n = 2 -> [st EXCEPT !.Enabled = pl.isEnabled]
                             [] n = 3 -> [st EXCEPT !.Shuffled = pl.isShuffled]
                             [] n = 4 -> [st EXCEPT !.PlaylistID = pl.playlistID]
                             [] n = 5 -> [st EXCEPT !.TotalTracks = Len(pl.tracks)]
                             [] n = 6 -> [st EXCEPT !.CurrentIndex = pl.currentIndex]]
    /\ UNCHANGED <<q, hist, cur, state, last, pl, ld, cfg, now, nAdded,
                   stack, inserted, onlyAdds, fronted, updates, feedVars>>

\* buildState returns the snapshot
BuildStateReturn ==
    /\ last = NoCall
    /\ snap.pc = 6
    /\ snap' = NoSnap
    /\ UNCHANGED <<q, hist, cur, state, last, pl, ld, cfg, now, nAdded,
                   stack, inserted, onlyAdds, fronted, updates, feedVars>>

SnapshotNext ==
    \/ PlEnable \/ PlDisable \/ PlToggleShuffle \/ Load \/ Return
    \/ BuildStateRead \/ BuildStateReturn

SpecSnapshot == Init /\ [][SnapshotNext]_vars

----------------------------------------------------------------------------
(* Properties of the Player, checked under Spec.  In an action formula the *)
(* unprimed variables are the state before the call and last' tells which  *)
(* operation the step is and what it returned.                             *)

\* the playlist position getNext reads for cursor i of playlist p
cursorPos(p, i) ==
    LET j == IF p.isShuffled /\ i \in DOMAIN p.shuffleMap THEN p.shuffleMap[i] ELSE i
    IN  IF j >= Len(p.tracks) THEN 0 ELSE j

\* the cursor after one advance of playlist p
advanced(p) ==
    IF Len(p.tracks) = 0 THEN p.currentIndex
    ELSE IF p.currentIndex + 1 >= Len(p.tracks) THEN 0 ELSE p.currentIndex + 1

\* a track made from the playlist by getNext or getAt (admitted tracks are
\* numbered from 1)
FromPlaylist(t) == t # NoTrack /\ t.id = 0

\* C2: previous() succeeds iff History is non-empty; on success the most
\* recent History entry becomes the current track and the state is playing.
C2_PreviousRestoresMostRecent ==
    [][last'.op = "previous" =>
        /\ (last'.res = "ok") <=> (hist.size > 0)
        /\ last'.res = "ok" =>
              /\ cur' = snapshot(hist)[hist.size]
              /\ state' = "playing"]_vars

\* the operations of the Player that can return an error
FailingOps == {"validateAndAdd", "play", "previous", "playlistJump", "remove"}

\* C5: a Player operation that returns an error leaves the current track,
\* the state tag, the pending queue, History and the playlist cursor as they
\* were and offers no snapshot to the broadcast channel.
C5_FailureChangesNothing ==
    [][last'.op \in FailingOps /\ last'.res = "err" =>
        /\ cur' = cur /\ state' = state /\ q' = q /\ hist' = hist
        /\ pl'.currentIndex = pl.currentIndex
        /\ ~last'.sent]_vars

\* playlistJump has just failed while a track is current, another is pending,
\* History holds a track and the playlist holds tracks
C5_Witness ==
    /\ last.op = "playlistJump" /\ last.res = "err"
    /\ cur # NoTrack /\ Len(q) > 0 /\ hist.size > 0 /\ Len(pl.tracks) > 0

\* C6: next() pushes the current track (if any) onto History, and advances
\* the playlist cursor iff that track was obtained from the playlist; for an
\* admitted track, whatever its submitter name, the playlist is left alone.
C6_NextAdvancesOnlyAfterPlaylistTrack ==
    [][last'.op = "next" /\ last'.res = "ok" =>
        /\ hist' = IF cur # NoTrack THEN push(hist, cur) ELSE hist
        /\ IF FromPlaylist(cur)
           THEN pl'.currentIndex = advanced(pl)
           ELSE pl' = pl]_vars

\* C7: when stop() returns, whatever the state it was called in, the state
\* is stopped and the playlist is disabled (so that play() cannot start a
\* playlist track afterwards).
C7_StopDisablesPlaylist ==
    [][last'.op = "stop" => state' = "stopped" /\ ~pl'.isEnabled]_vars

\* C8: play() with no current track fails with "queue is empty", the state
\* unchanged, exactly when the pending queue is empty and the playlist is
\* disabled or holds no tracks; when play() succeeds a track is current and
\* the state is playing.
C8_PlayFailsIffNothingAvailable ==
    [][last'.op = "play" =>
        /\ cur = NoTrack =>
              ((last'.res = "err" /\ last'.err = "queue is empty" /\ state' = state)
                  <=> (q = <<>> /\ (~pl.isEnabled \/ pl.tracks = <<>>)))
        /\ last'.res = "ok" => (cur' # NoTrack /\ state' = "playing")]_vars

\* the step selects the next track: next(), play() that gets past its
\* "queue is empty" check with no current track, or validateAndAdd that
\* autoplays the track it has just inserted
SelectsNext ==
    \/ last'.op = "next"
    \/ last'.op = "play" /\ last'.res # "err" /\ cur = NoTrack
    \/ /\ last'.op = "validateAndAdd" /\ last'.res = "ok"
       /\ state = "stopped" /\ q = <<>> /\ cur = NoTrack

\* C9: when the next track is selected, the head of a non-empty pending
\* queue becomes current; with an empty pending queue the track at the
\* cursor of an enabled playlist that holds tracks becomes current; otherwise
\* the current track is cleared and the state becomes stopped.
C9_SelectionOrder ==
    [][SelectsNext =>
        IF last'.op = "validateAndAdd"
        THEN /\ cur' # NoTrack /\ cur'.id = nAdded' /\ q' = <<>>
             /\ state' = "playing"
        ELSE IF q # <<>>
        THEN cur' = Head(q) /\ q' = Tail(q) /\ state' = "playing"
        ELSE IF pl'.isEnabled /\ pl'.tracks # <<>>
        THEN /\ FromPlaylist(cur')
             /\ cursorPos(pl', pl'.currentIndex) \in 0..(Len(pl'.tracks) - 1)
             /\ cur'.vid = pl'.tracks[cursorPos(pl', pl'.currentIndex) + 1]
             /\ q' = <<>> /\ state' = "playing"
        ELSE cur' = NoTrack /\ q' = <<>> /\ state' = "stopped"]_vars

\* the errors of the checks validateAndAdd makes before the queue size check
EarlierErrors ==
    {"lookup failed", "video is not available for playback", "track too long",
     "insufficient views", "track recently played (repeat limit reached)"}

\* C10: an admission that passed the earlier checks is rejected with "queue
\* is full" exactly when maxQueueSize > 0 and the pending queue length, plus
\* one if a track is current, is at least maxQueueSize; the rejection leaves
\* the queue as it was.
C10_QueueFullExactly ==
    [][last'.op = "validateAndAdd" /\ last'.err \notin EarlierErrors =>
        /\ (last'.res = "err" /\ last'.err = "queue is full")
              <=> (cfg.MaxQueueSize > 0
                   /\ Len(q) + (IF cur # NoTrack THEN 1 ELSE 0) >= cfg.MaxQueueSize)
        /\ last'.res = "err" => q' = q]_vars

\* an admission has just been rejected with "queue is full" while one track
\* is current and one is pending (maxQueueSize = 2)
C10_Witness ==
    /\ last.op = "validateAndAdd" /\ last.err = "queue is full"
    /\ cur # NoTrack /\ ~FromPlaylist(cur) /\ Len(q) = 1 /\ cfg.MaxQueueSize = 2
    /\ nAdded = 2

\* C11: a successful admission makes the admitted track current, with state
\* playing and an empty pending queue, exactly when the state was stopped
\* and nothing was current or pending; otherwise it leaves the current track
\* and the state tag alone and only inserts the track into the pending queue.
C11_AutoplayOnlyFromIdle ==
    [][last'.op = "validateAndAdd" /\ last'.res = "ok" =>
        IF state = "stopped" /\ cur = NoTrack /\ q = <<>>
        THEN /\ cur' # NoTrack /\ cur'.id = nAdded'
             /\ state' = "playing" /\ q' = <<>>
        ELSE /\ cur' = cur /\ state' = state
             /\ Len(q') = Len(q) + 1
             /\ \E i \in 1..Len(q') :
                    q'[i].id = nAdded' /\ q = removeAtRest(q', i - 1)]_vars

\* a track has just been admitted while nothing was current and the state
\* was paused: it is pending, nothing is current
C11_Witness ==
    /\ last.op = "validateAndAdd" /\ last.res = "ok"
    /\ cur = NoTrack /\ state = "paused" /\ Len(q) = 1

\* paid tracks first, and within a class the tracks in admission order
\* (tracks are numbered in admission order)
InPlayOrder(items) ==
    \A i, j \in 1..Len(items) :
        i < j => /\ items[i].paid \/ ~items[j].paid
                 /\ items[i].paid = items[j].paid => items[i].id < items[j].id

\* C12: under admissions and next() only, the pending queue stays in the
\* order paid before unpaid, admission order within a class; next() makes its
\* head current; and an admission never replaces a track that is current.
C12_PaidBeforeUnpaid ==
    [][/\ InPlayOrder(q')
       /\ last'.op = "next" /\ q # <<>> => cur' = Head(q) /\ q' = Tail(q)
       /\ last'.op = "validateAndAdd" /\ cur # NoTrack => cur' = cur]_vars

\* next() has just made a paid track current while an unpaid track admitted
\* before it is still pending
C12_Witness ==
    /\ last.op = "next" /\ cur.paid
    /\ Len(q) > 0 /\ ~q[1].paid /\ q[1].id < cur.id

\* C13: no call of the Player waits on the broadcast channel: every call
\* that has started returns (and releases the lock), also when the channel is
\* full and the consumer never receives.
C13_CallsReturn == (last # NoCall) ~> (last = NoCall)

\* a call is at its broadcast() while the channel is full
C13_Witness ==
    last # NoCall /\ last.sent /\ Len(updates) = UpdatesCap

\* C14: a snapshot offered to a full channel takes the place of the oldest
\* undelivered one: the channel then holds the others and, last, the
\* snapshot offered.
C14_OldestSkipped ==
    [][last # NoCall /\ last.sent /\ last' = NoCall /\ Len(updates) = UpdatesCap =>
        updates' = Append(Tail(updates),
                          buildState(q, hist, cur, state, statusOf(pl)))]_vars

\* C15: a load or reload replaces the track list in one step: every step
\* that changes the list installs the complete list of the playlist being
\* loaded, so that no other operation finds an emptied or a partly filled
\* list.
C15_TrackListReplacedWhole ==
    [][pl'.tracks # pl.tracks => pl'.tracks = Content(pl'.playlistID)]_vars

\* the tracks, the identifier, the cursor and the shuffle map of a playlist
loadState(p) == <<p.tracks, p.playlistID, p.currentIndex, p.shuffleMap>>

\* C16: a load() or reload() that returns an error has left the tracks, the
\* playlist identifier, the cursor and the shuffle map as the call found
\* them.
C16_FailedLoadChangesNothing ==
    [][last'.op = "load" /\ last'.res = "err" =>
        ld.kept /\ loadState(pl') = loadState(pl)]_vars

\* C17: whenever the playlist holds at least one track the cursor is a
\* position of the track list: 0 <= currentIndex < number of tracks.
C17_CursorInRange ==
    Len(pl.tracks) > 0 => pl.currentIndex \in 0..(Len(pl.tracks) - 1)

\* C18: the playlist part of every snapshot buildState returns is the
\* playlist as it was at one instant; in particular loaded = (totalTracks >
\* 0).
C18_SnapshotOfOneInstant ==
    snap.pc = 6 => (snap.st.Loaded <=> snap.st.TotalTracks > 0)

\* C19: with no load or reload in progress, a successful playlistJump(i),
\* the last index included, moves the playlist cursor (or finds it at i+1
\* already): the advance inside the jump does not fail.
C19_JumpMovesCursor ==
    [][last'.op = "playlistJump" /\ last'.res = "ok" /\ ld.stage = "idle" =>
        \E i \in 0..(Len(pl.tracks) - 1) :
            /\ cur'.vid = pl.tracks[i + 1]
            /\ pl'.currentIndex # pl.currentIndex \/ pl.currentIndex = i + 1]_vars

LookupErrors ==
    {"lookup failed", "video is not available for playback", "track too long",
     "insufficient views"}

RepeatError == "track recently played (repeat limit reached)"

\* the number of History entries for video id
timesInHistory(id) ==
    Cardinality({i \in 1..hist.size : snapshot(hist)[i].vid = id})

recentVideos(n) ==
    {snapshot(hist)[i].vid : i \in {j \in 1..hist.size : j > hist.size - n}}

\* C22: with repeat_limit N > 0 an admission of video X that passed the
\* earlier checks is rejected for repetition iff X is among the N most
\* recent History entries.
C22_RepeatAmongRecent ==
    [][last'.op = "validateAndAdd" /\ last'.err \notin LookupErrors
            /\ cfg.RepeatLimit > 0 =>
        ((last'.err = RepeatError)
            <=> (last'.id \in recentVideos(cfg.RepeatLimit)))]_vars

\* the entries of a sequence of tracks
entries(items) == {items[i] : i \in 1..Len(items)}

\* C28: cleanupOld(h) with h > 0 leaves in the pending queue exactly the
\* entries added after now - h (each once) and leaves the current track and
\* History alone; cleanupOld(0) changes nothing.
C28_CleanupRemovesOld ==
    [][last = NoCall /\ last'.op = "cleanupOld" =>
        /\ cur' = cur /\ hist' = hist
        /\ last'.hours > 0 =>
              /\ entries(q') = {t \in entries(q) : t.at > now - last'.hours}
              /\ Len(q') = Cardinality(entries(q'))
        /\ last'.hours = 0 =>
              UNCHANGED <<q, hist, cur, state, pl, ld, cfg, now, nAdded, ghostVars>>]_vars

\* cleanupOld(1) has removed a pending track and kept a younger one while
\* a track is current
C28_Witness ==
    /\ last.op = "cleanupOld" /\ last.hours = 1 /\ last.sent
    /\ q # <<>> /\ cur # NoTrack

\* the number of tracks in the queue: the pending ones and the current one
queueSize == Len(q) + (IF cur # NoTrack THEN 1 ELSE 0)

\* C23: the pending tracks and the current one are never more than
\* max_queue_size.
C23_QueueWithinMax == queueSize <= cfg.MaxQueueSize

\* C26: whenever shuffle is on, the shuffle map is a bijection of the
\* positions of the track list, [0, N) for N tracks.
C26_ShuffleMapBijective ==
    pl.isShuffled => pl.shuffleMap \in Perms(Len(pl.tracks))

\* C29: getNext leaves the playlist as it is, returns nothing exactly when
\* the playlist is disabled or holds no tracks, and otherwise returns the
\* track the cursor designates (so that a second call returns the same
\* video).
C29_GetNextPeeks ==
    [][last'.op = "getNext" =>
        /\ pl' = pl
        /\ last'.res = "ok"
        /\ (last'.ret = NoTrack) <=> (~pl.isEnabled \/ pl.tracks = <<>>)
        /\ last'.ret # NoTrack =>
              last'.ret.vid = pl.tracks[cursorPos(pl, pl.currentIndex) + 1]]_vars

\* C30: the donation feed calls addTrack at most once for every RefID.
C30_OncePerRefID == \A r \in RefIDs : invoked[r] <= 1

\* the number of times track id is pending or current
timesQueued(items, c, id) ==
    Cardinality({i \in 1..Len(items) : items[i].id = id})
        + (IF c.id = id THEN 1 ELSE 0)

\* C24: with any number of validateAndAdd calls under way, a call that
\* accepts its track adds one track, leaves pending + current within
\* max_queue_size, and the track is pending or current exactly once.
C24_AdmissionAtomic ==
    [][nAdded' # nAdded =>
        /\ queueSize' = queueSize + 1
        /\ cfg.MaxQueueSize > 0 => queueSize' <= cfg.MaxQueueSize
        /\ timesQueued(q', cur', nAdded') = 1]_vars

\* one call has passed its checks with one place left in the queue while
\* another call waits for the lock
C24_Witness ==
    \E c, d \in Callers :
        /\ adm[c].pc = "checked" /\ adm[d].pc = "wait"
        /\ queueSize = cfg.MaxQueueSize - 1

\* C25: a validateAndAdd call that waits for its lookup does not hold the
\* lock: unless another call holds it, play, pause, stop, next, previous and
\* remove can each run to their end.
C25_LookupHoldsNoLock ==
    \A c \in Callers :
        adm[c].pc = "lookup" =>
            /\ mu # c
            /\ (mu = 0 /\ last = NoCall) =>
                  /\ ENABLED ConcPlay /\ ENABLED ConcPause /\ ENABLED ConcStop
                  /\ ENABLED ConcNextOp /\ ENABLED ConcPrevious
                  /\ ENABLED ConcRemove

\* next() has returned a new current track while every caller of
\* validateAndAdd waits for its lookup
C25_Witness ==
    /\ \A c \in Callers : adm[c].pc = "lookup"
    /\ last.op = "next" /\ last.res = "ok" /\ cur # NoTrack

\* C32: whenever the state tag is playing or paused there is a current
\* track.
C32_TagImpliesCurrent == state \in {"playing", "paused"} => cur # NoTrack

\* C33: no call ends in a run-time panic: getNext and getAt never read the
\* playlist's track list out of range.
C33_NoOutOfRange == last.res # "panic"

\* the playlist is enabled and unshuffled and nothing is pending
PlainPlaylist == q = <<>> /\ pl.isEnabled /\ ~pl.isShuffled

\* the logical index before index i of playlist p
before(p, i) == (i + Len(p.tracks) - 1) % Len(p.tracks)

\* C34: in the state next() leaves when the playlist track at cursor c was
\* current (the track at c + 1 is current, the cursor is c + 1 and the
\* newest History entry is the track at c), with nothing pending and an
\* enabled, unshuffled playlist of at least 3 tracks, previous() makes the
\* track at c current again and sets the cursor back to c.
C34_NextPreviousRoundTrip ==
    [][/\ last'.op = "previous" /\ last'.res = "ok"
       /\ PlainPlaylist /\ Len(pl.tracks) >= 3
       /\ FromPlaylist(cur) /\ cur.vid = pl.tracks[pl.currentIndex + 1]
       /\ hist.size > 0
       /\ FromPlaylist(snapshot(hist)[hist.size])
       /\ snapshot(hist)[hist.size].vid = pl.tracks[before(pl, pl.currentIndex) + 1]
       => /\ cur'.vid = pl.tracks[before(pl, pl.currentIndex) + 1]
          /\ pl'.currentIndex = before(pl, pl.currentIndex)]_vars

\* C35: in the state a successful playlistJump(i) with i + 1 < N leaves (the
\* track at index i is current, the cursor is i + 1), with nothing pending
\* and the playlist enabled and unshuffled, next() makes the track at index
\* i + 1 current.
C35_NextAfterJump ==
    [][/\ last'.op = "next" /\ last'.res = "ok"
       /\ PlainPlaylist /\ FromPlaylist(cur)
       => \A i \in 0..(Len(pl.tracks) - 2) :
              cur.vid = pl.tracks[i + 1] /\ pl.currentIndex = i + 1
                  => cur'.vid = pl.tracks[i + 2]]_vars

\* the playlist track that was last current is the one at index j: it is
\* current, or a queue track is current and it is the newest History entry
lastPlaylistIndex(j) ==
    \/ FromPlaylist(cur) /\ cur.vid = pl.tracks[j + 1]
    \/ /\ cur # NoTrack /\ cur.id > 0 /\ hist.size > 0
       /\ FromPlaylist(snapshot(hist)[hist.size])
       /\ snapshot(hist)[hist.size].vid = pl.tracks[j + 1]

\* C36: with the playlist enabled and unshuffled and only admissions and
\* next() occurring, when next() makes a playlist track current and the
\* playlist track last current (directly before, or before the one queue
\* track played in between) had index j, the new one has index j + 1 modulo N.
C36_PlaylistInCycle ==
    [][last'.op = "next" /\ last'.res = "ok" /\ FromPlaylist(cur') =>
        \A j \in 0..(Len(pl.tracks) - 1) :
            lastPlaylistIndex(j) => cur'.vid = pl.tracks[((j + 1) % Len(pl.tracks)) + 1]]_vars

\* C37: once every call has returned and the consumer has drained the
\* channel, the snapshot the consumer received last is the Player's state.
C37_LastSnapshotIsFinal ==
    last = NoCall /\ updates = <<>> /\ received # <<>> =>
        received[1] = buildState(q, hist, cur, state, statusOf(pl))

\* C31: the reconnect delay starts at 10 s and stays within 10 s .. 5 min;
\* the sleep after a failed token fetch and after a connection that failed
\* or ended doubles it up to 5 min, an established connection resets it to
\* 10 s, and nothing else changes it.
C31_Backoff ==
    /\ monitor.backoff = baseBackoff
    /\ [](baseBackoff <= monitor.backoff /\ monitor.backoff <= maxBackoff)
    /\ [][ /\ (monitor.pc = "sleep" =>
                 /\ monitor'.pc = "token"
                 /\ \/ monitor'.backoff = 2 * monitor.backoff
                    \/ /\ 2 * monitor.backoff > maxBackoff
                       /\ monitor'.backoff = maxBackoff)
            /\ (monitor.pc = "token" => monitor'.pc \in {"connect", "sleep"})
            /\ (monitor.pc = "connect" => monitor'.pc \in {"stream", "sleep"})
            /\ (monitor'.pc = "stream" /\ monitor.pc # "stream" =>
                 monitor'.backoff = baseBackoff)
            /\ (monitor.pc # "sleep" /\ monitor'.pc # "stream" =>
                 monitor'.backoff = monitor.backoff) ]_vars

\* the delay has reached the cap through a doubling that was cut off
C31_Witness == monitor.backoff = maxBackoff /\ monitor.pc = "token"

\* position of the track with id i in the sequence items (0 when absent)
placeOf(items, i) ==
    IF \E k \in 1..Len(items) : items[k].id = i
    THEN CHOOSE k \in 1..Len(items) : items[k].id = i
    ELSE 0

\* C38: cleanupOld leaves the surviving pending entries in the relative
\* order they had before the call.
C38_CleanupKeepsOrder ==
    [][last = NoCall /\ last'.op = "cleanupOld" =>
        \A i, j \in 1..Len(q') :
            i < j => placeOf(q, q'[i].id) < placeOf(q, q'[j].id)]_vars

\* the admitted tracks (id above 0) the Player holds: pending, current, and
\* in History
held ==
    LET c == IF cur # NoTrack THEN <<cur>> ELSE <<>>
    IN  SelectSeq(q \o c \o snapshot(hist), LAMBDA t : t.id > 0)

\* C39: each admitted Track instance is held at most once over the pending
\* queue, the current track and History.
C39_HeldOnce ==
    \A i, j \in 1..Len(held) : held[i].id = held[j].id => i = j

\* the locks caller c holds
holds(c) ==
    {l \in {"P"} : mu = c}
        \cup {l \in {"pl", "cfg"} : locks[l].w = c \/ c \in locks[l].r}

\* a caller that takes Player.mu holds no lock, and a caller that takes the
\* playlist lock or the config lock holds at most Player.mu
LockOrder ==
    \A c \in Callers :
        thr[c].pc # 0 /\ atStep(c).a \in {"lock", "rlock"} =>
            IF atStep(c).l = "P" THEN holds(c) = {} ELSE holds(c) \subseteq {"P"}

\* C40: no interleaving of the operations deadlocks: the locks are taken in
\* the order Player.mu, then playlist lock or config lock; while a caller is
\* inside an operation some caller can make its next lock call; every
\* operation ends, and a caller that holds Player.mu releases it.
C40_NoDeadlock ==
    /\ [](LockOrder /\ \A c \in Callers : holds(c) \in
                          {{}, {"P"}, {"pl"}, {"cfg"}, {"P", "pl"}, {"P", "cfg"}})
    /\ []((\E c \in Callers : thr[c].pc # 0) =>
              \E c \in Callers : ENABLED StepOf(c))
    /\ \A c \in Callers : (mu = c) ~> (mu # c)
    /\ \A c \in Callers : (thr[c].pc # 0) ~> (thr[c] = ThrIdle)

\* caller 1 holds Player.mu and is inside Lock() of the playlist while
\* caller 2 reads the playlist
C40_Witness ==
    /\ mu = 1 /\ 1 \in locks.pl.wait
    /\ 2 \in locks.pl.r /\ holds(2) = {"pl"}

====
